---- MODULE Spec2Model ----
(***************************************************************************)
(* The Azercell chatbot: the FastAPI backend (project/backend/main.py) and *)
(* the Streamlit chat handler (project/frontend/app.py).                   *)
(*                                                                         *)
(* A text is a sequence of tokens; a token is a TLA+ string standing for   *)
(* a literal piece of a Python string.  Fixed pieces of the templates are  *)
(* one token each, so that concatenation, join, str.replace and substring  *)
(* search are computed on the sequences and not assumed.                   *)
(***************************************************************************)
EXTENDS Integers, Sequences, FiniteSets, TLC

\* ------------------------------------------------------------------ bounds
\* Longest conversation_history a direct API caller sends.
MaxHistory == 2
\* Most events the provider's response stream delivers before it ends or raises.
MaxChunks == 2
\* Most documents the retrieval provider is let to return (never above NumberOfResults).
MaxDocs == 2
\* Most entries of st.session_state.messages before the user clears the conversation.
MaxMessages == 3

\* numberOfResults of the retrieval request.
NumberOfResults == 3

\* ------------------------------------------------------------ value sets
None == "None"
Client == "client"
RequestIds == {1, 2}

Prompts == {<<"q">>, <<"w", "q">>}
Queries == {<<"q">>}
Deltas == {<<"a">>, <<"data: ", "b">>}
DocTexts == {<<"d">>, <<>>}
Answers == {<<"r">>}
Errors == {<<"boom">>}
ApiTurns == {[role |-> "user", content |-> <<"q">>], [role |-> "assistant", content |-> <<"r">>]}

Min(a, b) == IF a < b THEN a ELSE b

SeqsUpTo(S, n) == UNION {[1..k -> S] : k \in 0..n}

RECURSIVE Concat(_)
Concat(ss) == IF ss = <<>> THEN <<>> ELSE Head(ss) \o Concat(Tail(ss))

IsSubstring(s, t) ==
  \E i \in 0..(Len(t) - Len(s)) : SubSeq(t, i + 1, i + Len(s)) = s

\* ------------------------------------------------------- the environment
\* What bedrock_knowledge_base.retrieve does: it raises, or returns up to
\* numberOfResults results, each with a (possibly missing, hence '') text.
RetrievalOutcomes ==
  {[kind |-> "error", docs |-> <<>>, msg |-> m] : m \in Errors}
    \cup {[kind |-> "ok", docs |-> d, msg |-> <<>>] :
            d \in SeqsUpTo(DocTexts, Min(MaxDocs, NumberOfResults))}

\* What bedrock_client.invoke_model does: it raises or answers with a text.
InvokeOutcomes ==
  {[kind |-> "error", text |-> m] : m \in Errors}
    \cup {[kind |-> "ok", text |-> a] : a \in Answers}

\* What bedrock_client.invoke_model_with_response_stream does: it raises or opens a stream.
OpenOutcomes ==
  {[kind |-> "error", text |-> m] : m \in Errors} \cup {[kind |-> "ok", text |-> <<>>]}

\* One event of the provider's response stream: an event without a chunk, a
\* chunk whose JSON has no delta, a delta without text, a text delta (possibly '').
ProviderEvents ==
  {[kind |-> k, text |-> <<>>] : k \in {"nochunk", "nodelta", "notext", "text"}}
    \cup {[kind |-> "text", text |-> d] : d \in Deltas}

\* The message of the AttributeError raised by a call on a client that is None.
NoneTypeError == <<"'NoneType' object has no attribute">>

\* ------------------------------------------------- backend: pure functions
\* json.dumps({key: text}): the tokens `{"key": "`, the text, `"}`.
JsonDumps(key, text) == <<"{", key>> \o text \o <<"}">>

\* f"data: {json.dumps({key: text})}\n\n" as the client's iter_lines() receives
\* it: the data line, then the empty line of the blank-line separator.
SseLines(key, text) == << <<"data: ">> \o JsonDumps(key, text), <<>> >>

\* event.get("chunk")
HasChunk(ev) == ev.kind # "nochunk"

\* decoded.get("delta", {}).get("text", "")
DeltaText(ev) == IF ev.kind = "text" THEN ev.text ELSE <<>>

\* A mutant of EventLines: the `if text:` test is lost.
EventLinesUnfiltered(ev) ==
  IF HasChunk(ev) THEN SseLines("text", DeltaText(ev)) ELSE <<>>

\* The body of generate_stream's loop: what one provider event yields.
EventLines(ev) ==
  IF HasChunk(ev) /\ DeltaText(ev) # <<>> THEN SseLines("text", DeltaText(ev)) ELSE <<>>

\* generate_stream's except clause: what a raised exception yields.
ErrorLines(msg) == SseLines("error", msg)

Sentinel == <<"No relevant information found in the knowledge base.">>

\* f'Document {ind+1}: ' + text
DocLine(ind, text) == <<"Document ", ToString(ind), ": ">> \o text

\* '\n\n'.join(DocLine(1, docs[1]), DocLine(2, docs[2]), ...)
RECURSIVE JoinDocs(_, _)
JoinDocs(docs, ind) ==
  IF ind > Len(docs) THEN <<>>
  ELSE IF ind = Len(docs) THEN DocLine(ind, docs[ind])
  ELSE DocLine(ind, docs[ind]) \o <<"\n\n">> \o JoinDocs(docs, ind + 1)

\* get_knowledge_base_data, given what retrieve() did.
KbText(outcome) ==
  IF outcome.kind = "error" THEN <<"Error accessing knowledge base: ">> \o outcome.msg
  ELSE IF outcome.docs = <<>> THEN Sentinel
  ELSE JoinDocs(outcome.docs, 1)

\* A mutant of RetrieveCalls: the call is tried again when it fails.
RetrieveCallsRetried(client, outcome) ==
  IF client = None THEN 0 ELSE IF outcome.kind = "error" THEN 2 ELSE 1

\* How many times get_knowledge_base_data reaches the provider: once, unless
\* the client is None and the attribute lookup raises before any call.
RetrieveCalls(client, outcome) == IF client = None THEN 0 ELSE 1

\* What retrieve() did, as get_knowledge_base_data sees it.
RetrieveResult(client, outcome) ==
  IF client = None THEN [kind |-> "error", docs |-> <<>>, msg |-> NoneTypeError]
  ELSE outcome

\* A mutant of EnhancedMessage: the template loses the user's question.
EnhancedMessageNoQuestion(endpoint, info, message) ==
  <<"### Knowledge Base Information:">> \o info \o <<"### User Question:">>
    \o <<"Please provide a helpful response based on the knowledge base information above.">>

\* The f-string enhanced_message of chat_endpoint and of chat_stream_endpoint.
EnhancedMessage(endpoint, info, message) ==
  <<"### Knowledge Base Information:">> \o info \o <<"### User Question:">> \o message
    \o <<"Please provide a helpful response based on the knowledge base information above.">>
    \o (IF endpoint = "chat"
        THEN <<"If the information is not sufficient, use your general knowledge to provide a helpful response.">>
        ELSE <<>>)

\* messages = []; messages.extend([msg.dict() for msg in request.conversation_history])
ExtendHistory(history) ==
  [i \in 1..Len(history) |-> [role |-> history[i].role, content |-> history[i].content]]

\* messages.append({"role": "user", "content": request.message})
AppendUser(msgs, message) == Append(msgs, [role |-> "user", content |-> message])

\* A mutant of RewriteLast: index 0 instead of -1.
RewriteFirst(msgs, content) == [msgs EXCEPT ![1].content = content]

\* messages[-1]["content"] = enhanced_message
RewriteLast(msgs, content) == [msgs EXCEPT ![Len(msgs)].content = content]

\* What invoke_model did, as chat_with_bedrock sees it.
InvokeResult(client, outcome) ==
  IF client = None THEN [kind |-> "error", text |-> NoneTypeError] ELSE outcome

\* A mutant of chat_with_bedrock: no try/except, the exception leaves it.
chat_with_bedrock_unguarded(res) ==
  [raised |-> res.kind = "error", text |-> res.text]

\* chat_with_bedrock: it never raises; it returns the answer's text, or the
\* error text in its place.
chat_with_bedrock(res) ==
  [raised |-> FALSE,
   text |-> IF res.kind = "error" THEN <<"Error communicating with AI model: ">> \o res.text
            ELSE res.text]

\* A mutant of ClientMissing: the `if not bedrock_client` test is lost.
ClientNeverMissing(client) == FALSE

\* `if not bedrock_client` / `if not bedrock_knowledge_base`
ClientMissing(client) == client = None

\* A mutant of Frame: `messages` is one module-level list.
FrameShared(r) == 1

\* The list that the name `messages` denotes in request r: a local of the call.
Frame(r) == r

\* ------------------------------------------------------------------ state
VARIABLES
  started,                \* the startup event has run
  bedrock_client,         \* module global of main.py
  bedrock_knowledge_base, \* module global of main.py
  pc,                     \* per request: the handler's position
  endpoint,               \* per request: "search", "chat" or "stream"
  request,                \* per request: the parsed body, [message, conversation_history]
  messages,               \* per frame: the list `messages` of the handler
  kb_info,                \* per request: the local kb_info
  http,                   \* per request: the response, [status, body]
  gen,                    \* per request: generate_stream: "none", "open", "exhausted", "failed"
  pulled,                 \* per request: what each next() on the provider stream gave
  wire,                   \* per request: the lines of the streamed body so far
  ext,                    \* per request: the external calls made and how they ended
  session_messages,       \* st.session_state.messages, [role, content] each
  ui,                     \* the chat handler of app.py: position and locals
  turn                    \* the current UI turn: requests sent, calls made, result

clients == <<started, bedrock_client, bedrock_knowledge_base>>
backend == <<pc, endpoint, request, messages, kb_info, http, gen, pulled, wire, ext>>
frontend == <<session_messages, ui>>
vars == <<clients, backend, frontend, turn>>

NoRequest == [message |-> <<>>, conversation_history |-> <<>>]
NoResponse == [status |-> 0, body |-> <<>>]
NoCalls == [retrievals |-> 0, completions |-> 0, retrieval |-> "none", completion |-> "none"]
UiIdle == [pc |-> "idle", prompt |-> <<>>, conversation_history |-> <<>>,
           full_response |-> <<>>, pos |-> 0]
NoTurn == [requests |-> 0, retrievals |-> 0, completions |-> 0, status |-> 0,
           received |-> <<>>, result |-> "none"]

\* The module as imported: no client yet, no request, an empty Streamlit session.
Init ==
  /\ started = FALSE
  /\ bedrock_client = None
  /\ bedrock_knowledge_base = None
  /\ pc = [r \in RequestIds |-> "idle"]
  /\ endpoint = [r \in RequestIds |-> "none"]
  /\ request = [r \in RequestIds |-> NoRequest]
  /\ messages = [f \in RequestIds |-> <<>>]
  /\ kb_info = [r \in RequestIds |-> <<>>]
  /\ http = [r \in RequestIds |-> NoResponse]
  /\ gen = [r \in RequestIds |-> "none"]
  /\ pulled = [r \in RequestIds |-> <<>>]
  /\ wire = [r \in RequestIds |-> <<>>]
  /\ ext = [r \in RequestIds |-> NoCalls]
  /\ session_messages = <<>>
  /\ ui = UiIdle
  /\ turn = NoTurn

\* The external calls of a request made for the UI's current turn count for the turn.
CountForTurn(nr, nc) ==
  IF ui.pc \in {"await_stream", "consuming", "await_chat"}
  THEN [turn EXCEPT !.retrievals = @ + nr, !.completions = @ + nc]
  ELSE turn

\* ---------------------------------------------------------------- backend
\* init_aws_clients at startup: both boto3.client calls succeed, the second
\* raises (bedrock_client is already bound), or the first raises.
Startup ==
  /\ ~started
  /\ started' = TRUE
  /\ \E made \in 0..2 :
       /\ bedrock_client' = IF made >= 1 THEN Client ELSE None
       /\ bedrock_knowledge_base' = IF made >= 2 THEN Client ELSE None
  /\ UNCHANGED <<backend, frontend, turn>>

\* The request as the handler is entered.
Post(r, ep, message, history) ==
  /\ pc' = [pc EXCEPT ![r] = "check"]
  /\ endpoint' = [endpoint EXCEPT ![r] = ep]
  /\ request' = [request EXCEPT ![r] = [message |-> message, conversation_history |-> history]]
  /\ kb_info' = [kb_info EXCEPT ![r] = <<>>]
  /\ http' = [http EXCEPT ![r] = NoResponse]
  /\ gen' = [gen EXCEPT ![r] = "none"]
  /\ pulled' = [pulled EXCEPT ![r] = <<>>]
  /\ wire' = [wire EXCEPT ![r] = <<>>]
  /\ ext' = [ext EXCEPT ![r] = NoCalls]
  /\ UNCHANGED <<clients, messages>>

\* A request reaches a handler: the application serves once startup has run.
Arrive(r, ep, message, history) ==
  /\ started
  /\ pc[r] = "idle"
  /\ Post(r, ep, message, history)

\* The handler raises HTTPException(500): the response, and the frame is gone.
Fail500(r, detail) ==
  /\ pc' = [pc EXCEPT ![r] = "done"]
  /\ http' = [http EXCEPT ![r] = [status |-> 500, body |-> detail]]

\* The first statement of each handler: the test of its client.
CheckClient(r) ==
  /\ pc[r] = "check"
  /\ IF endpoint[r] = "search"
     THEN IF ClientMissing(bedrock_knowledge_base)
          THEN Fail500(r, <<"Knowledge base client not initialized">>)
          ELSE pc' = [pc EXCEPT ![r] = "retrieve"] /\ UNCHANGED http
     ELSE IF ClientMissing(bedrock_client)
          THEN Fail500(r, <<"Bedrock client not initialized">>)
          ELSE pc' = [pc EXCEPT ![r] = "build"] /\ UNCHANGED http
  /\ UNCHANGED <<clients, endpoint, request, messages, kb_info, gen, pulled, wire, ext,
                 frontend, turn>>

\* messages = [] and the copy of the request's history into it.
BuildMessages(r) ==
  /\ pc[r] = "build"
  /\ messages' = [messages EXCEPT ![Frame(r)] = ExtendHistory(request[r].conversation_history)]
  /\ pc' = [pc EXCEPT ![r] = "append"]
  /\ UNCHANGED <<clients, endpoint, request, kb_info, http, gen, pulled, wire, ext,
                 frontend, turn>>

\* The append of the new user turn.
AppendMessage(r) ==
  /\ pc[r] = "append"
  /\ messages' = [messages EXCEPT ![Frame(r)] = AppendUser(@, request[r].message)]
  /\ pc' = [pc EXCEPT ![r] = "retrieve"]
  /\ UNCHANGED <<clients, endpoint, request, kb_info, http, gen, pulled, wire, ext,
                 frontend, turn>>

\* get_knowledge_base_data(request.message or request.query); /search returns
\* its result at once.
Retrieve(r, outcomes) ==
  /\ pc[r] = "retrieve"
  /\ \E o \in outcomes :
       LET res == RetrieveResult(bedrock_knowledge_base, o)
           n == RetrieveCalls(bedrock_knowledge_base, o)
       IN /\ kb_info' = [kb_info EXCEPT ![r] = KbText(res)]
          /\ ext' = [ext EXCEPT ![r].retrievals = @ + n,
                                ![r].retrieval = IF res.kind = "error" THEN "error"
                                                 ELSE IF res.docs = <<>> THEN "empty"
                                                 ELSE "docs"]
          /\ turn' = CountForTurn(n, 0)
          /\ IF endpoint[r] = "search"
             THEN /\ pc' = [pc EXCEPT ![r] = "done"]
                  /\ http' = [http EXCEPT ![r] = [status |-> 200, body |-> KbText(res)]]
             ELSE /\ pc' = [pc EXCEPT ![r] = "rewrite"]
                  /\ UNCHANGED http
  /\ UNCHANGED <<clients, endpoint, request, messages, gen, pulled, wire, frontend>>

\* The rewrite of the last message's content.
RewriteMessage(r) ==
  /\ pc[r] = "rewrite"
  /\ messages' = [messages EXCEPT ![Frame(r)] =
                    RewriteLast(@, EnhancedMessage(endpoint[r], kb_info[r], request[r].message))]
  /\ pc' = [pc EXCEPT ![r] = "invoke"]
  /\ UNCHANGED <<clients, endpoint, request, kb_info, http, gen, pulled, wire, ext,
                 frontend, turn>>

\* /chat: chat_with_bedrock and the ChatResponse; an exception that left
\* chat_with_bedrock would reach the outer except.  The handler returns: its
\* locals are gone.
InvokeModel(r) ==
  /\ pc[r] = "invoke"
  /\ endpoint[r] = "chat"
  /\ \E o \in InvokeOutcomes :
       LET res == InvokeResult(bedrock_client, o)
           out == chat_with_bedrock(res)
           n == IF bedrock_client = None THEN 0 ELSE 1
       IN /\ http' = [http EXCEPT ![r] = [status |-> IF out.raised THEN 500 ELSE 200,
                                          body |-> out.text]]
          /\ ext' = [ext EXCEPT ![r].completions = @ + n, ![r].completion = res.kind]
          /\ turn' = CountForTurn(0, n)
  /\ pc' = [pc EXCEPT ![r] = "done"]
  /\ messages' = [messages EXCEPT ![Frame(r)] = <<>>]
  /\ kb_info' = [kb_info EXCEPT ![r] = <<>>]
  /\ request' = [request EXCEPT ![r] = NoRequest]
  /\ UNCHANGED <<clients, endpoint, gen, pulled, wire, frontend>>

\* /chat/stream: invoke_model_with_response_stream.  When it raises, the outer
\* except answers 500; otherwise the StreamingResponse is returned (status 200)
\* and generate_stream runs as the body is sent.
OpenStream(r) ==
  /\ pc[r] = "invoke"
  /\ endpoint[r] = "stream"
  /\ \E o \in OpenOutcomes :
       LET res == IF bedrock_client = None THEN [kind |-> "error", text |-> NoneTypeError] ELSE o
           n == IF bedrock_client = None THEN 0 ELSE 1
       IN /\ ext' = [ext EXCEPT ![r].completions = @ + n, ![r].completion = res.kind]
          /\ turn' = CountForTurn(0, n)
          /\ IF res.kind = "error"
             THEN Fail500(r, res.text) /\ UNCHANGED gen
             ELSE /\ pc' = [pc EXCEPT ![r] = "streaming"]
                  /\ http' = [http EXCEPT ![r] = [status |-> 200, body |-> <<>>]]
                  /\ gen' = [gen EXCEPT ![r] = "open"]
  /\ messages' = [messages EXCEPT ![Frame(r)] = <<>>]
  /\ kb_info' = [kb_info EXCEPT ![r] = <<>>]
  /\ request' = [request EXCEPT ![r] = NoRequest]
  /\ UNCHANGED <<clients, endpoint, pulled, wire, frontend>>

\* A mutant of AfterError: the loop goes on after the except clause.
AfterErrorResumed == "open"

\* generate_stream after its except clause: the generator returns.
AfterError == "failed"

\* One turn of generate_stream's loop: the provider stream gives an event.
PullEvent(r) ==
  /\ pc[r] = "streaming"
  /\ gen[r] = "open"
  /\ Len(pulled[r]) < MaxChunks
  /\ \E ev \in ProviderEvents :
       /\ pulled' = [pulled EXCEPT ![r] = Append(@, ev)]
       /\ wire' = [wire EXCEPT ![r] = @ \o EventLines(ev)]
  /\ UNCHANGED <<clients, pc, endpoint, request, messages, kb_info, http, gen, ext,
                 frontend, turn>>

\* The provider stream is exhausted: the loop and the generator end.
StreamEnd(r) ==
  /\ pc[r] = "streaming"
  /\ gen[r] = "open"
  /\ pulled' = [pulled EXCEPT ![r] = Append(@, [kind |-> "end", text |-> <<>>])]
  /\ gen' = [gen EXCEPT ![r] = "exhausted"]
  /\ pc' = [pc EXCEPT ![r] = "done"]
  /\ UNCHANGED <<clients, endpoint, request, messages, kb_info, http, wire, ext,
                 frontend, turn>>

\* The provider stream (or the decoding of its chunk) raises: the except clause.
StreamRaise(r) ==
  /\ pc[r] = "streaming"
  /\ gen[r] = "open"
  /\ \E m \in Errors :
       /\ pulled' = [pulled EXCEPT ![r] = Append(@, [kind |-> "raise", text |-> m])]
       /\ wire' = [wire EXCEPT ![r] = @ \o ErrorLines(m)]
  /\ gen' = [gen EXCEPT ![r] = AfterError]
  /\ pc' = [pc EXCEPT ![r] = IF AfterError = "failed" THEN "done" ELSE "streaming"]
  /\ UNCHANGED <<clients, endpoint, request, messages, kb_info, http, ext, frontend, turn>>

\* The caller has its response; the request is over.
Release(r) ==
  /\ pc' = [pc EXCEPT ![r] = "idle"]
  /\ endpoint' = [endpoint EXCEPT ![r] = "none"]
  /\ request' = [request EXCEPT ![r] = NoRequest]
  /\ http' = [http EXCEPT ![r] = NoResponse]
  /\ gen' = [gen EXCEPT ![r] = "none"]
  /\ pulled' = [pulled EXCEPT ![r] = <<>>]
  /\ wire' = [wire EXCEPT ![r] = <<>>]
  /\ ext' = [ext EXCEPT ![r] = NoCalls]
  /\ UNCHANGED <<clients, messages, kb_info>>

\* ------------------------------------------- direct callers of the API
ApiHistories == SeqsUpTo(ApiTurns, MaxHistory)

ApiPost ==
  /\ \E ep \in {"chat", "stream"}, m \in Prompts, h \in ApiHistories : Arrive(1, ep, m, h)
  /\ UNCHANGED <<frontend, turn>>

ApiReceive ==
  /\ pc[1] = "done"
  /\ Release(1)
  /\ UNCHANGED <<frontend, turn>>

NextApi ==
  \/ Startup
  \/ ApiPost
  \/ CheckClient(1)
  \/ BuildMessages(1)
  \/ AppendMessage(1)
  \/ Retrieve(1, RetrievalOutcomes)
  \/ RewriteMessage(1)
  \/ InvokeModel(1)
  \/ OpenStream(1)
  \/ PullEvent(1)
  \/ StreamEnd(1)
  \/ StreamRaise(1)
  \/ ApiReceive

SpecApi == Init /\ [][NextApi]_vars

\* ------------------------------------------------ frontend: pure functions
\* line.decode('utf-8').replace('data: ', ''): every occurrence is removed.
StripData(line) == SelectSeq(line, LAMBDA t : t # "data: ")

\* json.loads of a payload: the object's one key and its string value, or a
\* JSONDecodeError.
JsonLoads(s) ==
  IF /\ Len(s) >= 3
     /\ s[1] = "{"
     /\ s[Len(s)] = "}"
     /\ \A i \in 2..(Len(s) - 1) : s[i] \notin {"{", "}"}
  THEN [ok |-> TRUE, key |-> s[2], val |-> SubSeq(s, 3, Len(s) - 1)]
  ELSE [ok |-> FALSE, key |-> "", val |-> <<>>]

\* The body of the consumer loop for one line: what it does to full_response
\* and whether it breaks.
ConsumeLine(full_response, line) ==
  IF line = <<>> THEN [full_response |-> full_response, stop |-> FALSE]
  ELSE LET data == JsonLoads(StripData(line))
       IN IF ~data.ok THEN [full_response |-> full_response, stop |-> FALSE]
          ELSE IF data.key = "text"
               THEN [full_response |-> full_response \o data.val, stop |-> FALSE]
          ELSE IF data.key = "error"
               THEN [full_response |-> full_response, stop |-> TRUE]
          ELSE [full_response |-> full_response, stop |-> FALSE]

\* ------------------------------------------------- frontend: chat handler
\* st.session_state.messages.append(assistant_message); the script run ends.
StoreAssistant(content) ==
  /\ session_messages' = Append(session_messages, [role |-> "assistant", content |-> content])
  /\ ui' = UiIdle

\* st.chat_input delivers a prompt: the user message is appended, the history
\* is every earlier message, and the turn is posted to /chat/stream.
UiSubmit ==
  /\ ui.pc = "idle"
  /\ Len(session_messages) + 2 <= MaxMessages
  /\ \E p \in Prompts :
       LET history == [i \in 1..Len(session_messages) |->
                         [role |-> session_messages[i].role,
                          content |-> session_messages[i].content]]
       IN /\ session_messages' = Append(session_messages, [role |-> "user", content |-> p])
          /\ Arrive(1, "stream", p, history)
          /\ ui' = [UiIdle EXCEPT !.pc = "await_stream", !.prompt = p,
                                  !.conversation_history = history]
  /\ turn' = [NoTurn EXCEPT !.requests = 1]

\* The status line of /chat/stream arrives: 200 starts the consumer loop,
\* anything else posts the same turn to /chat.
UiStreamStatus ==
  /\ ui.pc = "await_stream"
  /\ http[1].status # 0
  /\ IF http[1].status = 200
     THEN /\ ui' = [ui EXCEPT !.pc = "consuming", !.full_response = <<>>, !.pos = 0]
          /\ turn' = [turn EXCEPT !.status = 200]
          /\ UNCHANGED <<clients, backend>>
     ELSE /\ Post(1, "chat", ui.prompt, ui.conversation_history)
          /\ ui' = [ui EXCEPT !.pc = "await_chat"]
          /\ turn' = [turn EXCEPT !.status = http[1].status, !.requests = @ + 1]
  /\ UNCHANGED session_messages

\* One line of response.iter_lines().  At an error event the loop breaks and
\* the handler stores what it has accumulated.
UiLine ==
  /\ ui.pc = "consuming"
  /\ ui.pos < Len(wire[1])
  /\ LET line == wire[1][ui.pos + 1]
         step == ConsumeLine(ui.full_response, line)
     IN /\ turn' = [turn EXCEPT !.received = Append(@, line),
                                !.result = IF step.stop THEN "stored" ELSE @]
        /\ IF step.stop
           THEN /\ StoreAssistant(step.full_response)
                /\ Release(1)
           ELSE /\ ui' = [ui EXCEPT !.full_response = step.full_response, !.pos = @ + 1]
                /\ UNCHANGED <<session_messages, clients, backend>>

\* The streamed body is complete and read to its end: the loop ends and the
\* handler stores the accumulated response.
UiStreamClosed ==
  /\ ui.pc = "consuming"
  /\ pc[1] = "done"
  /\ ui.pos = Len(wire[1])
  /\ StoreAssistant(ui.full_response)
  /\ turn' = [turn EXCEPT !.result = "stored"]
  /\ Release(1)

\* The answer of /chat arrives: 200 stores data["response"], anything else is
\* shown as an error.
UiChatResponse ==
  /\ ui.pc = "await_chat"
  /\ pc[1] = "done"
  /\ IF http[1].status = 200
     THEN /\ StoreAssistant(http[1].body)
          /\ turn' = [turn EXCEPT !.result = "stored"]
     ELSE /\ ui' = UiIdle
          /\ turn' = [turn EXCEPT !.result = "error"]
          /\ UNCHANGED session_messages
  /\ Release(1)

\* The Clear Conversation button.
UiClear ==
  /\ ui.pc = "idle"
  /\ session_messages # <<>>
  /\ session_messages' = <<>>
  /\ turn' = NoTurn
  /\ UNCHANGED <<ui, clients, backend>>

\* The Search button of the sidebar.
UiSearch ==
  /\ ui.pc = "idle"
  /\ \E q \in Queries : Arrive(1, "search", q, <<>>)
  /\ ui' = [ui EXCEPT !.pc = "await_search"]
  /\ UNCHANGED <<session_messages, turn>>

\* The answer of /search arrives and is shown.
UiSearchResponse ==
  /\ ui.pc = "await_search"
  /\ pc[1] = "done"
  /\ Release(1)
  /\ ui' = UiIdle
  /\ UNCHANGED <<session_messages, turn>>

Next ==
  \/ Startup
  \/ UiSubmit
  \/ CheckClient(1)
  \/ BuildMessages(1)
  \/ AppendMessage(1)
  \/ Retrieve(1, RetrievalOutcomes)
  \/ RewriteMessage(1)
  \/ InvokeModel(1)
  \/ OpenStream(1)
  \/ PullEvent(1)
  \/ StreamEnd(1)
  \/ StreamRaise(1)
  \/ UiStreamStatus
  \/ UiLine
  \/ UiStreamClosed
  \/ UiChatResponse
  \/ UiClear
  \/ UiSearch
  \/ UiSearchResponse

Spec == Init /\ [][Next]_vars

\* --------------------------------------- two requests in flight at once
\* Longest conversation_history of the two concurrent requests.
MaxConcHistory == 1

ConcHistories == SeqsUpTo(ApiTurns, MaxConcHistory)

\* The retrieval outcomes the two concurrent requests meet: an error, no
\* document, one document.
ConcRetrievalOutcomes ==
  {o \in RetrievalOutcomes : Len(o.docs) <= 1 /\ (o.docs # <<>> => o.docs[1] # <<>>)}

ConcPost(r) ==
  /\ \E m \in Prompts, h \in ConcHistories : Arrive(r, "chat", m, h)
  /\ UNCHANGED <<frontend, turn>>

ConcReceive(r) ==
  /\ pc[r] = "done"
  /\ Release(r)
  /\ UNCHANGED <<frontend, turn>>

\* The steps of the handlers are interleaved freely: every schedule of the
\* event loop, of a thread pool or of several workers is one of these.
NextConc ==
  \/ Startup
  \/ \E r \in RequestIds :
       \/ ConcPost(r)
       \/ CheckClient(r)
       \/ BuildMessages(r)
       \/ AppendMessage(r)
       \/ Retrieve(r, ConcRetrievalOutcomes)
       \/ RewriteMessage(r)
       \/ InvokeModel(r)
       \/ ConcReceive(r)

SpecConc == Init /\ [][NextConc]_vars

\* ----------------------------------------------------------------- claims
\* The list handed to create_body_json by request r, when r is about to call
\* the provider.
Composed(r) == messages[Frame(r)]

\* C4: the final message of the composed prompt has role user and contains
\* the retrieval text and the literal message; the retrieval text is never
\* empty, and is the sentinel when retrieval returned no document.
C4_FinalMessageEmbedsBoth ==
  \A r \in RequestIds :
    pc[r] = "invoke" =>
      /\ Len(Composed(r)) >= 1
      /\ LET last == Composed(r)[Len(Composed(r))]
         IN /\ last.role = "user"
            /\ IsSubstring(kb_info[r], last.content)
            /\ IsSubstring(request[r].message, last.content)
      /\ kb_info[r] # <<>>
      /\ (ext[r].retrieval = "empty" => kb_info[r] = Sentinel)

C4_Witness ==
  /\ pc[1] = "invoke"
  /\ ext[1].retrieval = "empty"
  /\ Len(request[1].conversation_history) = MaxHistory

\* C5: the composed list is the history, entry by entry and in order,
\* followed by one new user entry, and only that entry's content is rewritten.
C5_HistoryPreserved ==
  \A r \in RequestIds :
    LET h == request[r].conversation_history
        n == Len(h)
    IN /\ pc[r] \in {"retrieve", "rewrite"} /\ endpoint[r] # "search" =>
            Composed(r) = h \o <<[role |-> "user", content |-> request[r].message]>>
       /\ pc[r] = "invoke" =>
            /\ Len(Composed(r)) = n + 1
            /\ \A i \in 1..n : Composed(r)[i] = h[i]
            /\ Composed(r)[n + 1].role = "user"
            /\ Composed(r)[n + 1].content # request[r].message

C5_Witness ==
  /\ pc[1] = "invoke"
  /\ Len(request[1].conversation_history) = 2
  /\ request[1].conversation_history[1] = request[1].conversation_history[2]

\* What request r composes when it runs alone.
ComposedAlone(r) ==
  RewriteLast(AppendUser(ExtendHistory(request[r].conversation_history), request[r].message),
              EnhancedMessage(endpoint[r], kb_info[r], request[r].message))

\* C6: with two requests in flight, under every interleaving, each request's
\* composed prompt is the one it composes alone from its own message, history
\* and retrieval result; the clients are written at startup only.
C6_Isolation ==
  /\ [](\A r \in RequestIds : pc[r] = "invoke" => Composed(r) = ComposedAlone(r))
  /\ [][started => /\ bedrock_client' = bedrock_client
                   /\ bedrock_knowledge_base' = bedrock_knowledge_base]_vars

C6_Witness ==
  /\ pc[1] = "invoke"
  /\ pc[2] = "rewrite"
  /\ request[1].message # request[2].message
  /\ kb_info[1] # kb_info[2]

\* The chat and chat-stream requests.
IsChat(r) == endpoint[r] \in {"chat", "stream"}

\* The UI's turn is over: the assistant message is stored or the error shown.
TurnOver == turn.result # "none"

\* C1 as stated: every turn issues exactly one retrieval call and exactly one
\* completion call, whatever the outcome of either.
C1_ExactlyOneCallEachPerTurn ==
  /\ turn.retrievals <= 1
  /\ turn.completions <= 1
  /\ TurnOver => turn.retrievals = 1 /\ turn.completions = 1

\* C1, amended: a request issues at most one retrieval and one completion
\* call; a request that passes the client test issues exactly one completion
\* call, and exactly one retrieval call when the retrieval client exists (none
\* when it does not).  A turn is one request when /chat/stream answers 200 and
\* two (the same turn posted again to /chat) when it answers 500: so one call
\* of each kind when the stream opens, two of each when opening the provider
\* stream fails, none when bedrock_client is None.
C1_CallsPerRequestAndTurn ==
  /\ \A r \in RequestIds : ext[r].retrievals <= 1 /\ ext[r].completions <= 1
  /\ \A r \in RequestIds :
       pc[r] \in {"streaming", "done"} /\ IsChat(r) /\ bedrock_client # None =>
         /\ ext[r].completions = 1
         /\ ext[r].retrievals = IF bedrock_knowledge_base = None THEN 0 ELSE 1
  /\ TurnOver =>
       LET served == IF bedrock_client = None THEN 0 ELSE turn.requests
       IN /\ turn.requests = IF turn.status = 200 THEN 1 ELSE 2
          /\ turn.completions = served
          /\ turn.retrievals = IF bedrock_knowledge_base = None THEN 0 ELSE served

C1_Witness ==
  /\ TurnOver
  /\ turn.retrievals = 2
  /\ turn.completions = 2
  /\ turn.result = "stored"

\* The lines that a sequence of provider events must yield: one text event
\* per non-empty text delta, in order, the delta unchanged.
RECURSIVE ExpectedTextLines(_)
ExpectedTextLines(evs) ==
  IF evs = <<>> THEN <<>>
  ELSE LET ev == Head(evs)
       IN (IF ev.kind = "text" /\ Len(ev.text) > 0
           THEN << <<"data: ", "{", "text">> \o ev.text \o <<"}">>, <<>> >>
           ELSE <<>>) \o ExpectedTextLines(Tail(evs))

IsPrefix(s, t) == Len(s) <= Len(t) /\ SubSeq(t, 1, Len(s)) = s

\* C2: a provider stream that raises after n non-empty deltas yields those n
\* text events in order, then one error event with the message, and ends: the
\* raise is the last pull, nothing follows the error event, and no line
\* already sent is withdrawn.
C2_ErrorEndsStream ==
  /\ [](\A r \in RequestIds :
          \A i \in 1..Len(pulled[r]) :
            pulled[r][i].kind = "raise" =>
              /\ i = Len(pulled[r])
              /\ gen[r] = "failed"
              /\ pc[r] = "done"
              /\ wire[r] = ExpectedTextLines(SubSeq(pulled[r], 1, i - 1))
                             \o << <<"data: ", "{", "error">> \o pulled[r][i].text \o <<"}">>,
                                   <<>> >>)
  /\ [][\A r \in RequestIds : pc[r] = "streaming" => IsPrefix(wire[r], wire'[r])]_vars

C2_Witness ==
  /\ gen[1] = "failed"
  /\ Len(pulled[1]) = 3
  /\ Len(wire[1]) = 6
  /\ pulled[1][1].text # pulled[1][2].text

\* C3: a provider stream that ends without error yields exactly the text
\* events of its non-empty deltas, in order, and nothing for any other event;
\* nothing marks the end.
C3_OnlyNonEmptyDeltas ==
  \A r \in RequestIds :
    /\ gen[r] = "open" => wire[r] = ExpectedTextLines(pulled[r])
    /\ gen[r] = "exhausted" =>
         /\ pulled[r][Len(pulled[r])].kind = "end"
         /\ wire[r] = ExpectedTextLines(SubSeq(pulled[r], 1, Len(pulled[r]) - 1))

C3_Witness ==
  /\ gen[1] = "exhausted"
  /\ Len(pulled[1]) = 3
  /\ pulled[1][1].kind = "text" /\ pulled[1][1].text # <<>>
  /\ pulled[1][2].kind = "text" /\ pulled[1][2].text = <<>>
  /\ Len(wire[1]) = 2

\* C7 as stated: a chat or chat-stream request that finds a provider client
\* (either of the two) not initialised fails with 500 before any external call.
C7_AnyMissingClientFails ==
  \A r \in RequestIds :
    /\ IsChat(r)
    /\ pc[r] \in {"streaming", "done"}
    /\ (bedrock_client = None \/ bedrock_knowledge_base = None)
    => /\ http[r].status = 500
       /\ ext[r].retrievals = 0
       /\ ext[r].completions = 0

\* C7, amended: when bedrock_client is None a chat or chat-stream request
\* fails at its first statement with a 500 carrying the static message: no
\* retrieval call, no completion call, no response text, no stream event.  The
\* UI posts the turn once more, to /chat, which fails the same way; the turn
\* makes no external call and stores no assistant message.
C7_MissingBedrockClientFails ==
  bedrock_client = None =>
    /\ \A r \in RequestIds :
         IsChat(r) /\ pc[r] # "check" =>
           /\ pc[r] = "done"
           /\ http[r] = [status |-> 500, body |-> <<"Bedrock client not initialized">>]
           /\ ext[r] = NoCalls
           /\ wire[r] = <<>>
           /\ gen[r] = "none"
    /\ turn.retrievals = 0 /\ turn.completions = 0
    /\ TurnOver => turn.result = "error" /\ turn.requests = 2
    /\ \A i \in 1..Len(session_messages) : session_messages[i].role = "user"

C7_Witness ==
  /\ bedrock_client = None
  /\ turn.result = "error"
  /\ turn.requests = 2

\* C8: /search answers 500 when the retrieval client is missing and when
\* the retrieval call fails, and 200 only when the call succeeded.
C8_SearchFailsWhenRetrievalFails ==
  \A r \in RequestIds :
    endpoint[r] = "search" /\ pc[r] = "done" =>
      (http[r].status = 500 <=>
         (bedrock_knowledge_base = None \/ ext[r].retrieval = "error"))

\* C9 as stated: a chat or chat-stream request answers 500 only when a
\* provider client is not initialised.
C9_Only500WhenUninitialised ==
  \A r \in RequestIds :
    IsChat(r) /\ pc[r] = "done" /\ http[r].status = 500 =>
      (bedrock_client = None \/ bedrock_knowledge_base = None)

StartsWith(t, s) == IsPrefix(s, t)

\* C9, amended: a chat or chat-stream request answers 500 exactly when
\* bedrock_client is None or, for chat-stream, when opening the provider
\* stream raises.  Every other failure is converted: a failed retrieval into
\* an error text used as context, a failed completion call into an error text
\* returned as the answer with 200, a failed stream read into a final error
\* event inside the 200 stream.
C9_FailuresAbsorbedExceptOpen ==
  \A r \in RequestIds :
    IsChat(r) =>
      /\ pc[r] \in {"streaming", "done"} =>
           /\ http[r].status \in {200, 500}
           /\ http[r].status = 500 <=>
                \/ bedrock_client = None
                \/ endpoint[r] = "stream" /\ ext[r].completion = "error"
      /\ pc[r] \in {"rewrite", "invoke"} /\ ext[r].retrieval = "error" =>
           StartsWith(kb_info[r], <<"Error accessing knowledge base: ">>)
      /\ pc[r] = "done" /\ endpoint[r] = "chat" /\ ext[r].completion = "error" =>
           /\ http[r].status = 200
           /\ StartsWith(http[r].body, <<"Error communicating with AI model: ">>)
      /\ gen[r] = "failed" =>
           /\ http[r].status = 200
           /\ Len(wire[r]) >= 2
           /\ StartsWith(wire[r][Len(wire[r]) - 1], <<"data: ", "{", "error">>)

C9_Witness ==
  /\ endpoint[1] = "chat"
  /\ pc[1] = "done"
  /\ ext[1].retrieval = "error"
  /\ ext[1].completion = "error"
  /\ http[1].status = 200
  /\ turn.status = 500

\* The text of a text event `data: {"text": <text>}`, and whether a line is one.
IsTextEvent(line) ==
  Len(line) >= 4 /\ SubSeq(line, 1, 3) = <<"data: ", "{", "text">> /\ line[Len(line)] = "}"

IsErrorEvent(line) ==
  Len(line) >= 4 /\ SubSeq(line, 1, 3) = <<"data: ", "{", "error">> /\ line[Len(line)] = "}"

EventText(line) == SubSeq(line, 4, Len(line) - 1)

\* The concatenation of the texts of the text events before the first error event.
RECURSIVE TextsBeforeError(_)
TextsBeforeError(lines) ==
  IF lines = <<>> \/ IsErrorEvent(Head(lines)) THEN <<>>
  ELSE (IF IsTextEvent(Head(lines)) THEN EventText(Head(lines)) ELSE <<>>)
         \o TextsBeforeError(Tail(lines))

\* C10: the assistant message stored for a streamed turn is the
\* concatenation of the texts of the text events received before the first
\* error event or the end of the stream; other lines change nothing.
C10_StoredIsConcatenation ==
  turn.result = "stored" /\ turn.status = 200 =>
    session_messages[Len(session_messages)].content = TextsBeforeError(turn.received)

====
